---- MODULE Spec2Model ----
(***************************************************************************)
(* Model of extensions/css/client/src/cssMain.ts: the CSS language client. *)
(*                                                                         *)
(*  - applyCodeAction (the `_css.applyCodeAction` command) applies a batch *)
(*    of server-proposed text edits to the active editor;                  *)
(*  - ColorProvider.provideDocumentColors, the colorRequestor closure and  *)
(*    the provider registered for the document selector send               *)
(*    `css/colorSymbols` requests and turn the responses into host data.   *)
(*                                                                         *)
(* The host (documents, versions, the edit primitive, the user messages)   *)
(* and the language server are the environment: the host resolves an edit  *)
(* transaction, the server answers a request, the user edits a document,   *)
(* the host cancels a token.                                               *)
(***************************************************************************)
EXTENDS Integers, Sequences, FiniteSets, TLC

VARIABLES
    docs,          \* uri -> [text, version]: the host's open documents
    activeEditor,  \* window.activeTextEditor: a uri, or NoEditor
    invocations,   \* the calls of applyCodeAction so far, in order
    txns,          \* the edit transactions submitted with textEditor.edit
    ready,         \* client.onReady() has resolved and its callback has run
    requests,      \* the css/colorSymbols requests sent to the server
    calls,         \* the colour queries so far, in order
    config,        \* the host's configuration: key -> value
    answers        \* the calls of isDecoratorEnabled so far, with what each returned

vars == <<docs, activeEditor, invocations, txns, ready, requests, calls, config, answers>>

fixVars   == <<docs, activeEditor, invocations, txns>>
colorVars == <<ready, requests, calls>>
configVars == <<config, answers>>

----------------------------------------------------------------------------
(* Bounds of the model *)

MaxVersion     == 2   \* versions the user's own edits reach, and versions a fix names
MaxInvocations == 1   \* calls of applyCodeAction
MaxCalls       == 2   \* colour queries
MaxReads       == 2   \* calls of isDecoratorEnabled

----------------------------------------------------------------------------
(* Values *)

URIs     == {"a.css", "b.less"}
NoEditor == "undefined"
Undefined == [kind |-> "undefined"]

Pos(l, c) == [line |-> l, character |-> c]

\* A range as the protocol carries it (vscode-languageclient's Range).
ServerRange(sl, sc, el, ec) == [start |-> Pos(sl, sc), end |-> Pos(el, ec)]

Min(a, b) == IF a <= b THEN a ELSE b

\* protocol2CodeConverter.asRange: the host's Range, built from the protocol one.
\* The line and character numbers are carried over; the representation changes.
asPosition(p) == [kind |-> "Position", line |-> p.line, character |-> p.character]
asRange(r) == [kind |-> "Range", start |-> asPosition(r.start), end |-> asPosition(r.end)]

----------------------------------------------------------------------------
(* The host's documents: text is a sequence of characters, "\n" ends a line *)

Newlines(text) == {i \in 1..Len(text) : text[i] = "\n"}

\* the k-th smallest element of a set of numbers, k >= 1
Nth(S, k) == CHOOSE i \in S : Cardinality({j \in S : j < i}) = k - 1

\* offset (0-based) of a position, clamped to the text the way the host validates
\* it: a line past the last one is the end of the text, a character past the end
\* of its line is the end of that line
OffsetAt(text, p) ==
    LET nl    == Newlines(text)
        first == IF p.line = 0 THEN 0 ELSE Nth(nl, p.line)
        last  == IF p.line < Cardinality(nl) THEN Nth(nl, p.line + 1) - 1 ELSE Len(text)
    IN  IF p.line > Cardinality(nl) THEN Len(text) ELSE Min(first + p.character, last)

Replace(text, from, to, new) ==
    SubSeq(text, 1, from) \o new \o SubSeq(text, to + 1, Len(text))

StartOf(text, rep) == OffsetAt(text, rep.range.start)
EndOf(text, rep)   == OffsetAt(text, rep.range.end)

Remove(s, k) == SubSeq(s, 1, k - 1) \o SubSeq(s, k + 1, Len(s))

\* All replacements are positions in the text before the transaction: the host
\* applies them from the end of the text to its start.
RECURSIVE ApplyEdits(_, _, _)
ApplyEdits(orig, text, reps) ==
    IF reps = <<>> THEN text
    ELSE LET k == CHOOSE i \in 1..Len(reps) :
                      \A j \in 1..Len(reps) :
                          \/ StartOf(orig, reps[j]) < StartOf(orig, reps[i])
                          \/ (StartOf(orig, reps[j]) = StartOf(orig, reps[i]) /\ j <= i)
         IN  ApplyEdits(orig,
                        Replace(text, StartOf(orig, reps[k]), EndOf(orig, reps[k]),
                                reps[k].newText),
                        Remove(reps, k))

----------------------------------------------------------------------------
(* Inputs of applyCodeAction *)

TextEdit(r, t) == [range |-> r, newText |-> t]

E1 == TextEdit(ServerRange(0, 0, 0, 1), <<"z">>)   \* replace the first character
E2 == TextEdit(ServerRange(0, 1, 0, 1), <<"y">>)   \* insert after it
E3 == TextEdit(ServerRange(1, 0, 1, 1), <<>>)      \* delete the start of line 1

EditLists == {<<>>, <<E1>>, <<E3>>, <<E1, E2>>}

InfoMsg  == "CSS fix is outdated and can't be applied to the document."
ErrorMsg == "Failed to apply CSS fix to the document. Please consider opening an issue with steps to reproduce."

----------------------------------------------------------------------------
(* applyCodeAction, cssMain.ts lines 121-137 *)

\* a slip in line 123: the uri of the editor's document is not compared
EditorMatches_AnyEditor(uri) == activeEditor # NoEditor

\* line 123: textEditor && textEditor.document.uri.toString() === uri
EditorMatches(uri) == activeEditor # NoEditor /\ activeEditor = uri

\* line 124: textEditor.document.version !== documentVersion
IsOutdated(uri, documentVersion) == docs[uri].version # documentVersion

\* lines 124-126: the message shown before the edit is made
OutdatedMessages(uri, documentVersion) ==
    IF IsOutdated(uri, documentVersion) THEN <<InfoMsg>> ELSE <<>>

\* lines 128-130: one mutator.replace per edit, in the order of edits
Replacement(edit) == [range |-> asRange(edit.range), newText |-> edit.newText]
\* a slip in lines 128-130: the loop stops before the last edit
Replacements_DropLast(edits) ==
    [k \in 1..(IF Len(edits) > 1 THEN Len(edits) - 1 ELSE Len(edits)) |->
        Replacement(edits[k])]

Replacements(edits) == [k \in 1..Len(edits) |-> Replacement(edits[k])]

\* a slip in line 132: the test of success is inverted
EditResultMessages_Inverted(success) == IF success THEN <<ErrorMsg>> ELSE <<>>

\* lines 131-135: the continuation of textEditor.edit
EditResultMessages(success) == IF ~success THEN <<ErrorMsg>> ELSE <<>>

\* textEditor.edit(callback): the callback runs at once and the batch is handed
\* to the host as one transaction against the document's version at that time.
Transaction(inv, uri, edits) ==
    [inv |-> inv, uri |-> uri, replacements |-> Replacements(edits),
     baseVersion |-> docs[uri].version, baseText |-> docs[uri].text,
     status |-> "pending"]

ApplyCodeAction(uri, documentVersion, edits) ==
    /\ Len(invocations) < MaxInvocations
    /\ LET inv == Len(invocations) + 1
           matched == EditorMatches(uri)
       IN  /\ invocations' = Append(invocations,
                  [uri |-> uri, documentVersion |-> documentVersion, edits |-> edits,
                   editor |-> activeEditor,            \* the editor at the call
                   liveVersion |-> docs[uri].version,  \* the version at the call
                   msgs |-> IF matched THEN OutdatedMessages(uri, documentVersion)
                                       ELSE <<>>])
           /\ txns' = IF matched THEN Append(txns, Transaction(inv, uri, edits))
                                 ELSE txns
    /\ UNCHANGED <<docs, activeEditor, colorVars, configVars>>

\* The host applies a pending transaction: it does so only against the version
\* the transaction was built for, and all replacements together.
HostAppliesEdit(t) ==
    /\ t \in 1..Len(txns)
    /\ txns[t].status = "pending"
    /\ docs[txns[t].uri].version = txns[t].baseVersion
    /\ docs' = [docs EXCEPT ![txns[t].uri] =
                   [text |-> ApplyEdits(@.text, @.text, txns[t].replacements),
                    version |-> @.version + 1]]
    /\ txns' = [txns EXCEPT ![t].status = "applied"]
    /\ invocations' = [invocations EXCEPT ![txns[t].inv].msgs =
                                          @ \o EditResultMessages(TRUE)]
    /\ UNCHANGED <<activeEditor, colorVars, configVars>>

\* The host refuses a pending transaction: nothing of it is applied.
HostRejectsEdit(t) ==
    /\ t \in 1..Len(txns)
    /\ txns[t].status = "pending"
    /\ txns' = [txns EXCEPT ![t].status = "rejected"]
    /\ invocations' = [invocations EXCEPT ![txns[t].inv].msgs =
                                          @ \o EditResultMessages(FALSE)]
    /\ UNCHANGED <<docs, activeEditor, colorVars, configVars>>

\* The user types into a document: the host bumps its version.
UserEdit(uri) ==
    /\ docs[uri].version < MaxVersion
    /\ docs' = [docs EXCEPT ![uri] = [text |-> Append(@.text, "x"),
                                      version |-> @.version + 1]]
    /\ UNCHANGED <<activeEditor, invocations, txns, colorVars, configVars>>

\* The user switches to another editor, or closes the last one.
SwitchEditor(e) ==
    /\ e \in URIs \cup {NoEditor}
    /\ e # activeEditor
    /\ activeEditor' = e
    /\ UNCHANGED <<docs, invocations, txns, colorVars, configVars>>

----------------------------------------------------------------------------
(* The colour queries, cssMain.ts lines 16-35 and 72-97 *)

\* line 54: documentSelector, and the language the host gives each document
documentSelector == {"css", "less", "scss"}
LanguageId(uri) == IF uri = "a.css" THEN "css" ELSE "less"

R1 == ServerRange(0, 7, 0, 11)
R2 == ServerRange(1, 2, 1, 6)

\* what the server may answer: any list of ranges, repeats and any order included
Responses == {<<>>, <<R1>>, <<R1, R2>>, <<R2, R1>>, <<R1, R1>>}

\* line 17: ColorSymbolRequest.type
ColorSymbolRequest == "css/colorSymbols"

\* client.sendRequest(ColorSymbolRequest.type, uri): the message put on the wire
Request(uri) == [method |-> ColorSymbolRequest, param |-> uri,
                 answered |-> FALSE, response |-> <<>>]

\* Color.fromHex: '#rrggbb' to its components
HexDigit(ch) ==
    CASE ch = "0" -> 0 [] ch = "1" -> 1 [] ch = "2" -> 2 [] ch = "3" -> 3
      [] ch = "4" -> 4 [] ch = "5" -> 5 [] ch = "6" -> 6 [] ch = "7" -> 7
      [] ch = "8" -> 8 [] ch = "9" -> 9 [] ch = "a" -> 10 [] ch = "b" -> 11
      [] ch = "c" -> 12 [] ch = "d" -> 13 [] ch = "e" -> 14 [] ch = "f" -> 15
Color_fromHex(hex) ==
    [red   |-> 16 * HexDigit(hex[2]) + HexDigit(hex[3]),
     green |-> 16 * HexDigit(hex[4]) + HexDigit(hex[5]),
     blue  |-> 16 * HexDigit(hex[6]) + HexDigit(hex[7]),
     alpha |-> 255]

\* new ColorInfo(range, color, format, availableFormats)
ColorInfo(range, color, format, availableFormats) ==
    [range |-> range, color |-> color, format |-> format,
     availableFormats |-> availableFormats]

\* a slip in line 28: the range is built from the start position alone
ProviderColorInfo_StartOnly(r) ==
    ColorInfo([kind |-> "Range", start |-> asPosition(r.start), end |-> asPosition(r.start)],
              Color_fromHex(<<"#", "0", "0", "0", "0", "0", "0">>),
              "#{red:X}{green:X}{blue:X}", <<"#{red:X}{green:X}{blue:X}">>)

\* lines 28-33: the ColorInfo made for one range of the response
ProviderColorInfo(r) ==
    LET range  == asRange(r)
        color  == Color_fromHex(<<"#", "0", "0", "0", "0", "0", "0">>)
        format == "#{red:X}{green:X}{blue:X}"
        availableFormats == <<format>>
    IN  ColorInfo(range, color, format, availableFormats)

\* a slip in line 27: the first range of the response is skipped
ProviderResult_SkipFirst(ranges) ==
    [k \in 1..(Len(ranges) - 1) |-> ProviderColorInfo(ranges[k + 1])]

\* lines 27-34: ranges.map(r => ...)
ProviderResult(ranges) == [k \in 1..Len(ranges) |-> ProviderColorInfo(ranges[k])]

\* a slip in line 74: the ranges come out in the opposite order
RequestorResult_Reversed(ranges) ==
    [k \in 1..Len(ranges) |-> asRange(ranges[Len(ranges) + 1 - k])]

\* line 74: ranges.map(client.protocol2CodeConverter.asRange)
RequestorResult(ranges) == [k \in 1..Len(ranges) |-> asRange(ranges[k])]

\* line 91: the ColorInfo pushed for one range
SelectorColorInfo(range) == ColorInfo(Undefined, Undefined, "", <<>>)

\* lines 90-92: ranges.forEach(range => colorInfos.push(...))
SelectorPushed(colorInfos, ranges) ==
    colorInfos \o [k \in 1..Len(ranges) |-> SelectorColorInfo(ranges[k])]

\* a slip: the response is read from one slot shared by all requests, which
\* holds the latest request
OwnResponse_SharedSlot(c) == requests[Len(requests)].response

\* the response that resolves the promise of call c's own sendRequest
OwnResponse(c) == requests[calls[c].req].response

\* a slip: the providers and the feed are registered in activate itself, not in
\* the callback of onReady
ProvidersRegistered_AtActivation == TRUE

\* lines 72-97: the colour providers, colorRequestor and isDecoratorEnabled exist
\* and are registered only once the callback of client.onReady() has run
ProvidersRegistered == ready

\* a slip: a colour query hands the host an (empty) edit of the active document
NoHostEffect_SubmitsEdit ==
    /\ txns' = Append(txns, [inv |-> 0, uri |-> "a.css", replacements |-> <<>>,
                             baseVersion |-> docs["a.css"].version,
                             baseText |-> docs["a.css"].text, status |-> "pending"])
    /\ UNCHANGED <<docs, activeEditor, invocations>>

\* lines 24-35, 73-75, 87-95: the bodies of the colour queries call neither
\* textEditor.edit nor window.show...Message, and write no document
NoHostEffect == UNCHANGED fixVars

Call(kind, uri, returned) ==
    [kind |-> kind, uri |-> uri, req |-> Len(requests) + 1,
     token |-> FALSE,        \* token.isCancellationRequested
     pc |-> "awaiting",      \* the continuation of sendRequest has not run yet
     returned |-> returned,  \* the host holds the call's result
     result |-> <<>>]

\* lines 72-97: the callback of client.onReady() registers the providers and the feed
ClientReady ==
    /\ ~ready
    /\ ready' = TRUE
    /\ UNCHANGED <<fixVars, configVars, requests, calls>>

\* lines 24-25: the host calls the provider registered for 'css' (line 81)
ProvideDocumentColors(uri) ==
    /\ ProvidersRegistered
    /\ LanguageId(uri) = "css"
    /\ Len(calls) < MaxCalls
    /\ requests' = Append(requests, Request(uri))
    /\ calls' = Append(calls, Call("ColorProvider", uri, FALSE))
    /\ NoHostEffect /\ UNCHANGED <<ready, configVars>>

\* lines 73-75: the decoration feed calls colorRequestor(uri)
ColorRequestor(uri) ==
    /\ ProvidersRegistered
    /\ LanguageId(uri) \in documentSelector
    /\ Len(calls) < MaxCalls
    /\ requests' = Append(requests, Request(uri))
    /\ calls' = Append(calls, Call("colorRequestor", uri, FALSE))
    /\ NoHostEffect /\ UNCHANGED <<ready, configVars>>

\* lines 87-89, 94: the host calls the provider registered for the selector; it
\* calls colorRequestor and returns colorInfos, still empty, at once
SelectorProvideDocumentColors(uri) ==
    /\ ProvidersRegistered
    /\ LanguageId(uri) \in documentSelector
    /\ Len(calls) < MaxCalls
    /\ requests' = Append(requests, Request(uri))
    /\ calls' = Append(calls, Call("selectorProvider", uri, TRUE))
    /\ NoHostEffect /\ UNCHANGED <<ready, configVars>>

\* The host cancels the token of a provider call whose request is unanswered.
CancelToken(c) ==
    /\ c \in 1..Len(calls)
    /\ calls[c].kind # "colorRequestor"
    /\ ~calls[c].token
    /\ ~requests[calls[c].req].answered
    /\ calls' = [calls EXCEPT ![c].token = TRUE]
    /\ UNCHANGED <<fixVars, configVars, ready, requests>>

\* The server answers a request; requests are answered in any order.
ServerResponds(r, ranges) ==
    /\ r \in 1..Len(requests)
    /\ ~requests[r].answered
    /\ requests' = [requests EXCEPT ![r].answered = TRUE, ![r].response = ranges]
    /\ UNCHANGED <<fixVars, configVars, ready, calls>>

Answered(c) == calls[c].pc = "awaiting" /\ requests[calls[c].req].answered

\* lines 25-34: the await resumes and the promise resolves to the ColorInfos
ColorProviderResumes(c) ==
    /\ c \in 1..Len(calls)
    /\ calls[c].kind = "ColorProvider"
    /\ Answered(c)
    /\ calls' = [calls EXCEPT ![c].pc = "done", ![c].returned = TRUE,
                              ![c].result = ProviderResult(OwnResponse(c))]
    /\ NoHostEffect /\ UNCHANGED <<ready, requests, configVars>>

\* line 74: the then of sendRequest resolves colorRequestor's promise
ColorRequestorResolves(c) ==
    /\ c \in 1..Len(calls)
    /\ calls[c].kind = "colorRequestor"
    /\ Answered(c)
    /\ calls' = [calls EXCEPT ![c].pc = "done", ![c].returned = TRUE,
                              ![c].result = RequestorResult(OwnResponse(c))]
    /\ NoHostEffect /\ UNCHANGED <<ready, requests, configVars>>

\* lines 89-93: the then of colorRequestor pushes into the list already returned
SelectorPushes(c) ==
    /\ c \in 1..Len(calls)
    /\ calls[c].kind = "selectorProvider"
    /\ Answered(c)
    /\ calls' = [calls EXCEPT ![c].pc = "done",
                              ![c].result = SelectorPushed(@, RequestorResult(OwnResponse(c)))]
    /\ NoHostEffect /\ UNCHANGED <<ready, requests, configVars>>

----------------------------------------------------------------------------
(* isDecoratorEnabled, cssMain.ts lines 76-78 *)

\* line 77: languageId + '.colorDecorators.enable'
ConfigKey(languageId) == languageId \o ".colorDecorators.enable"

\* the keys the extension contributes, one per supported language
ConfigKeys == {ConfigKey(l) : l \in documentSelector}

\* the language ids the decoration feed may ask about
LanguageIds == documentSelector \cup {"html"}

\* workspace.getConfiguration().get<boolean>(key): the value now, or undefined
ConfigGet(key) == IF key \in DOMAIN config THEN config[key] ELSE Undefined

\* a slip: the first value read for a language is kept and returned from then on
IsDecoratorEnabledValue_Cached(languageId) ==
    IF \E k \in 1..Len(answers) : answers[k].languageId = languageId
    THEN answers[CHOOSE k \in 1..Len(answers) : answers[k].languageId = languageId].value
    ELSE ConfigGet(ConfigKey(languageId))

\* line 77: the value isDecoratorEnabled returns
IsDecoratorEnabledValue(languageId) == ConfigGet(ConfigKey(languageId))

\* lines 76-78: the decoration feed calls isDecoratorEnabled(languageId); the
\* closure exists once the callback of onReady has run
IsDecoratorEnabled(languageId) ==
    /\ ProvidersRegistered
    /\ Len(answers) < MaxReads
    /\ answers' = Append(answers, [languageId |-> languageId,
                                   value |-> IsDecoratorEnabledValue(languageId)])
    /\ UNCHANGED <<fixVars, colorVars, config>>

\* The user changes a setting.
ConfigChange(key, value) ==
    /\ key \in DOMAIN config
    /\ config[key] # value
    /\ config' = [config EXCEPT ![key] = value]
    /\ UNCHANGED <<fixVars, colorVars, answers>>

----------------------------------------------------------------------------

InitText == [u \in URIs |-> IF u = "a.css" THEN <<"a", "b">> ELSE <<"a", "\n", "b">>]

Init ==
    /\ docs = [u \in URIs |-> [text |-> InitText[u], version |-> 1]]
    /\ activeEditor \in URIs \cup {NoEditor}
    /\ invocations = <<>>
    /\ txns = <<>>
    /\ ready = FALSE
    /\ requests = <<>>
    /\ calls = <<>>
    /\ config = [k \in ConfigKeys |-> TRUE]
    /\ answers = <<>>

FixNext ==
    \/ \E uri \in URIs, v \in 1..MaxVersion, edits \in EditLists :
           ApplyCodeAction(uri, v, edits)
    \/ \E t \in 1..MaxInvocations : HostAppliesEdit(t)
    \/ \E t \in 1..MaxInvocations : HostRejectsEdit(t)
    \/ \E uri \in URIs : UserEdit(uri)
    \/ \E e \in URIs \cup {NoEditor} : SwitchEditor(e)

FixSpec == Init /\ [][FixNext]_vars

ColorNext ==
    \/ ClientReady
    \/ \E uri \in URIs : ProvideDocumentColors(uri)
    \/ \E uri \in URIs : ColorRequestor(uri)
    \/ \E uri \in URIs : SelectorProvideDocumentColors(uri)
    \/ \E c \in 1..MaxCalls : CancelToken(c)
    \/ \E r \in 1..MaxCalls, ranges \in Responses : ServerResponds(r, ranges)
    \/ \E c \in 1..MaxCalls : ColorProviderResumes(c)
    \/ \E c \in 1..MaxCalls : ColorRequestorResolves(c)
    \/ \E c \in 1..MaxCalls : SelectorPushes(c)

\* No colour query reads the editors: the colour queries are explored from one of
\* the initial states.
ColorInit == Init /\ activeEditor = "a.css"

ColorSpec == ColorInit /\ [][ColorNext]_vars

ConfigNext ==
    \/ ClientReady
    \/ \E l \in LanguageIds : IsDecoratorEnabled(l)
    \/ \E key \in ConfigKeys, value \in BOOLEAN : ConfigChange(key, value)

ConfigSpec == Init /\ [][ConfigNext]_vars

\* activation: the command is there from the start, the colour queries from ready on
ActivationNext ==
    \/ ClientReady
    \/ \E uri \in URIs : ProvideDocumentColors(uri)
    \/ \E uri \in URIs : ColorRequestor(uri)
    \/ \E uri \in URIs : SelectorProvideDocumentColors(uri)
    \/ \E uri \in URIs, v \in 1..MaxVersion, edits \in EditLists :
           ApplyCodeAction(uri, v, edits)

ActivationSpec == Init /\ [][ActivationNext]_vars

Next == FixNext \/ ColorNext \/ ConfigNext

Spec == Init /\ [][Next]_vars

----------------------------------------------------------------------------
(* Properties of applyCodeAction *)

Invs == 1..Len(invocations)
Txns == 1..Len(txns)

TxnsOf(i) == {t \in Txns : txns[t].inv = i}

\* what the call met, from the facts recorded at the call
NoMatchingEditor(i) ==
    invocations[i].editor = NoEditor \/ invocations[i].editor # invocations[i].uri
Stale(i) ==
    ~NoMatchingEditor(i) /\ invocations[i].liveVersion # invocations[i].documentVersion
Fresh(i) ==
    ~NoMatchingEditor(i) /\ invocations[i].liveVersion = invocations[i].documentVersion

Count(s, x) == Cardinality({k \in 1..Len(s) : s[k] = x})

\* C1: when the active editor shows uri and its version differs from
\* documentVersion, no edit transaction is submitted for the call (and so none
\* of its edits reaches the text).
C1_StaleSubmitsNothing ==
    \A i \in Invs : Stale(i) => TxnsOf(i) = {}

\* C2: a call with a differing documentVersion surfaces the informational
\* message and nothing else: never an error message.
C2_StaleOnlyInfo ==
    \A i \in Invs : Stale(i) => invocations[i].msgs = <<InfoMsg>>

\* C3: without an active editor, or with the active editor on another document,
\* the call is a silent no-op: it submits no transaction, it changes no
\* document's text or version, and no message is ever surfaced for it.
C3_SilentNoOp ==
    /\ [](\A i \in Invs :
             NoMatchingEditor(i) => TxnsOf(i) = {} /\ invocations[i].msgs = <<>>)
    /\ [][\A uri \in URIs, v \in 1..MaxVersion, edits \in EditLists :
             (ApplyCodeAction(uri, v, edits)
                 /\ (activeEditor = NoEditor \/ activeEditor # uri))
             => docs' = docs /\ txns' = txns]_vars

C3_Witness ==
    \E i \in Invs :
        /\ NoMatchingEditor(i) /\ invocations[i].editor # NoEditor
        /\ invocations[i].edits # <<>>
        /\ docs[invocations[i].uri].version = invocations[i].documentVersion

\* C4: a call whose documentVersion is the live version submits exactly one
\* transaction, with one replacement per edit, in order, each with the edit's
\* range translated and its newText unchanged; when the host applies it the
\* text is the result of these replacements and no message is surfaced.
ExpectedReplacements(edits) ==
    [k \in 1..Len(edits) |->
        [range |-> asRange(edits[k].range), newText |-> edits[k].newText]]

C4_FreshAppliesBatch ==
    /\ [](\A i \in Invs : Fresh(i) =>
             /\ Cardinality(TxnsOf(i)) = 1
             /\ \A t \in TxnsOf(i) :
                   /\ txns[t].uri = invocations[i].uri
                   /\ txns[t].replacements = ExpectedReplacements(invocations[i].edits)
                   /\ txns[t].status = "applied" => invocations[i].msgs = <<>>)
    /\ [][\A t \in 1..MaxInvocations :
             (HostAppliesEdit(t) /\ Fresh(txns[t].inv))
             => docs'[txns[t].uri].text =
                    ApplyEdits(docs[txns[t].uri].text, docs[txns[t].uri].text,
                               ExpectedReplacements(invocations[txns[t].inv].edits))]_vars

C4_Witness ==
    \E t \in Txns :
        /\ Fresh(txns[t].inv)
        /\ txns[t].status = "applied"
        /\ Len(invocations[txns[t].inv].edits) = 2
        /\ docs[txns[t].uri].text = <<"z", "y", "b">>

\* C5: when the host reports that the transaction failed, exactly one error
\* message is surfaced for the call, the text is unchanged, and the call has
\* no second transaction.
C5_RejectedOneError ==
    /\ [](\A t \in Txns : txns[t].status = "rejected" =>
             /\ Count(invocations[txns[t].inv].msgs, ErrorMsg) = 1
             /\ TxnsOf(txns[t].inv) = {t})
    /\ [](\A t \in Txns : txns[t].status # "rejected" =>
             Count(invocations[txns[t].inv].msgs, ErrorMsg) = 0)
    /\ [][\A t \in 1..MaxInvocations : HostRejectsEdit(t) => docs' = docs]_vars

C5_Witness ==
    \E t \in Txns :
        /\ txns[t].status = "rejected"
        /\ Fresh(txns[t].inv)
        /\ invocations[txns[t].inv].msgs = <<ErrorMsg>>

----------------------------------------------------------------------------
(* Properties of the colour queries *)

Calls == 1..Len(calls)

ResponseTo(c) == requests[calls[c].req].response

Translated(ranges) == [k \in 1..Len(ranges) |-> asRange(ranges[k])]

RangesOf(colorInfos) == [k \in 1..Len(colorInfos) |-> colorInfos[k].range]

Black == [red |-> 0, green |-> 0, blue |-> 0, alpha |-> 255]

\* C6: the ColorSymbols ColorProvider.provideDocumentColors resolves to are as
\* many as the ServerRanges of the response to its own request, and the i-th
\* carries the translation of the i-th range; it resolves to nothing before.
C6_ProviderLengthAndOrder ==
    \A c \in Calls : calls[c].kind = "ColorProvider" =>
        /\ calls[c].pc = "done" =>
              /\ Len(calls[c].result) = Len(ResponseTo(c))
              /\ RangesOf(calls[c].result) = Translated(ResponseTo(c))
        /\ calls[c].pc # "done" => calls[c].result = <<>> /\ ~calls[c].returned

C6_Witness ==
    \E c, d \in Calls :
        /\ calls[c].kind = "ColorProvider" /\ calls[c].pc = "done"
        /\ ResponseTo(c) = <<R1, R1>> /\ Len(calls[c].result) = 2
        /\ calls[d].kind = "ColorProvider" /\ calls[d].pc = "done"
        /\ ResponseTo(d) = <<>> /\ calls[d].returned

\* C7: a provider call whose token was signalled before the response arrived
\* never delivers a ColorSymbol to the host.
C7_CancelledDeliversNothing ==
    \A c \in Calls :
        (calls[c].kind # "colorRequestor" /\ calls[c].token)
        => ~(calls[c].returned /\ calls[c].result # <<>>)

\* C8: every ColorSymbol a colour provider hands to the host carries the fixed
\* black colour and a format list of exactly its own format string.
C8_FixedColorAndFormat ==
    \A c \in Calls : (calls[c].kind # "colorRequestor" /\ calls[c].returned) =>
        \A k \in 1..Len(calls[c].result) :
            /\ calls[c].result[k].color = Black
            /\ calls[c].result[k].availableFormats = <<calls[c].result[k].format>>

\* C9: every call of colorRequestor(uri) sends a css/colorSymbols request of
\* its own for that uri, and resolves to the translated ranges of that
\* request's response, in the same number and order.
C9_RequestorFresh ==
    /\ [](\A c \in Calls : calls[c].kind = "colorRequestor" =>
             /\ calls[c].req \in 1..Len(requests)
             /\ requests[calls[c].req].method = "css/colorSymbols"
             /\ requests[calls[c].req].param = calls[c].uri
             /\ \A d \in Calls : d # c => calls[d].req # calls[c].req
             /\ calls[c].pc = "done" =>
                   /\ requests[calls[c].req].answered
                   /\ calls[c].result = Translated(ResponseTo(c)))
    /\ [][\A uri \in URIs : ColorRequestor(uri) =>
             /\ Len(requests') = Len(requests) + 1
             /\ SubSeq(requests', 1, Len(requests)) = requests]_vars

C9_Witness ==
    \E c, d \in Calls :
        /\ c < d
        /\ calls[c].kind = "colorRequestor" /\ calls[d].kind = "colorRequestor"
        /\ calls[c].uri = calls[d].uri
        /\ calls[c].pc = "done" /\ calls[d].pc = "done"
        /\ calls[c].result = Translated(<<R1, R2>>)
        /\ calls[d].result = Translated(<<R2, R1>>)

\* C10: with several requests outstanding and answered in any order, the
\* result of each call is built from the response to its own request, and a
\* call whose response has arrived can go on whatever the earlier calls await.
Resume(c) ==
    ColorProviderResumes(c) \/ ColorRequestorResolves(c) \/ SelectorPushes(c)

C10_OwnResponseOnly ==
    \A c \in Calls :
        /\ (calls[c].pc = "done" /\ calls[c].kind = "ColorProvider") =>
              RangesOf(calls[c].result) = Translated(ResponseTo(c))
        /\ (calls[c].pc = "done" /\ calls[c].kind = "colorRequestor") =>
              calls[c].result = Translated(ResponseTo(c))
        /\ (calls[c].pc = "done" /\ calls[c].kind = "selectorProvider") =>
              Len(calls[c].result) = Len(ResponseTo(c))
        /\ calls[c].pc # "done" => calls[c].result = <<>>
        /\ (calls[c].pc # "done" /\ requests[calls[c].req].answered) =>
              ENABLED Resume(c)

C10_Witness ==
    \E c, d \in Calls :
        /\ c < d
        /\ calls[c].kind = "ColorProvider" /\ calls[d].kind = "colorRequestor"
        /\ calls[c].pc = "awaiting" /\ ~requests[calls[c].req].answered
        /\ calls[d].pc = "done" /\ calls[d].result = Translated(<<R2, R1>>)

\* C11: a colour query is a pure query: from its invocation to the handling of
\* its response, no step of it submits an edit transaction, changes a
\* document's text or version, or surfaces a message.
ColourQueryStep ==
    \/ \E uri \in URIs : ProvideDocumentColors(uri)
    \/ \E uri \in URIs : ColorRequestor(uri)
    \/ \E uri \in URIs : SelectorProvideDocumentColors(uri)
    \/ \E c \in 1..MaxCalls : Resume(c)

C11_PureQuery ==
    [][ColourQueryStep => /\ txns' = txns
                          /\ docs' = docs
                          /\ invocations' = invocations
                          /\ activeEditor' = activeEditor]_vars

C11_Witness ==
    /\ \E c, d \in Calls :
          /\ calls[c].kind = "ColorProvider" /\ calls[c].pc = "done"
          /\ calls[c].result # <<>>
          /\ calls[d].kind = "colorRequestor" /\ calls[d].pc = "done"
          /\ calls[d].result # <<>>
    /\ txns = <<>> /\ invocations = <<>>
    /\ \A u \in URIs : docs[u] = [text |-> InitText[u], version |-> 1]

\* C12: for a document of a supported language, once the response has been
\* handled, the list the host holds from the provider registered for the
\* document selector contains, for every ServerRange of the response, one
\* ColorSymbol carrying the translation of that range.
C12_SelectorReturnsSymbols ==
    \A c \in Calls :
        (/\ calls[c].kind = "selectorProvider"
         /\ LanguageId(calls[c].uri) \in {"css", "less", "scss"}
         /\ calls[c].returned
         /\ calls[c].pc = "done")
        => RangesOf(calls[c].result) = Translated(ResponseTo(c))

\* C13: range translation, in the colour provider, the decoration feed and the
\* fix application, keeps the start and end (line, character) of the
\* ServerRange; over a sequence the i-th output is the translation of the i-th
\* input, and distinct ServerRanges give distinct HostRanges.
Verbatim(r, h) ==
    /\ h.start.line = r.start.line /\ h.start.character = r.start.character
    /\ h.end.line = r.end.line /\ h.end.character = r.end.character

RangeInputs == {R1, R2, E1.range, E2.range, E3.range}

C13_TranslationVerbatim ==
    /\ \A c \in Calls : (calls[c].pc = "done" /\ calls[c].kind = "ColorProvider") =>
          /\ Len(calls[c].result) = Len(ResponseTo(c))
          /\ \A k \in 1..Len(ResponseTo(c)) :
                Verbatim(ResponseTo(c)[k], calls[c].result[k].range)
    /\ \A c \in Calls : (calls[c].pc = "done" /\ calls[c].kind = "colorRequestor") =>
          /\ Len(calls[c].result) = Len(ResponseTo(c))
          /\ \A k \in 1..Len(ResponseTo(c)) :
                Verbatim(ResponseTo(c)[k], calls[c].result[k])
    /\ \A edits \in EditLists :
          /\ Len(Replacements(edits)) = Len(edits)
          /\ \A k \in 1..Len(edits) :
                Verbatim(edits[k].range, Replacements(edits)[k].range)
    /\ \A r, q \in RangeInputs : r # q => asRange(r) # asRange(q)

C13_Witness ==
    \E c, d \in Calls :
        /\ calls[c].kind = "ColorProvider" /\ calls[c].pc = "done"
        /\ ResponseTo(c) = <<R1, R2>> /\ Len(calls[c].result) = 2
        /\ calls[d].kind = "colorRequestor" /\ calls[d].pc = "done"
        /\ ResponseTo(d) = <<R2, R1>> /\ Len(calls[d].result) = 2

\* C14: isDecoratorEnabled(languageId) reads the key
\* <languageId>.colorDecorators.enable on every call: after any configuration
\* changes, a call returns the value the key has at the moment of the call.
ValueNow(key) == IF key \in DOMAIN config THEN config[key] ELSE Undefined

C14_ReadThrough ==
    [][\A l \in LanguageIds : IsDecoratorEnabled(l) =>
          /\ Len(answers') = Len(answers) + 1
          /\ answers'[Len(answers')].languageId = l
          /\ l = "css"  => answers'[Len(answers')].value = ValueNow("css.colorDecorators.enable")
          /\ l = "less" => answers'[Len(answers')].value = ValueNow("less.colorDecorators.enable")
          /\ l = "scss" => answers'[Len(answers')].value = ValueNow("scss.colorDecorators.enable")
          /\ l = "html" => answers'[Len(answers')].value = ValueNow("html.colorDecorators.enable")
          /\ config' = config]_vars

C14_Witness ==
    /\ Len(answers) = 2
    /\ answers[1] = [languageId |-> "less", value |-> TRUE]
    /\ answers[2] = [languageId |-> "less", value |-> FALSE]
    /\ config["less.colorDecorators.enable"] = FALSE

\* C15: no css/colorSymbols request is sent (and no colour query runs) before
\* the client is ready; the applyCodeAction command can be invoked before ready.
C15_NoRequestBeforeReady ==
    /\ ~ready => requests = <<>> /\ calls = <<>>
    /\ (~ready /\ Len(invocations) < MaxInvocations) =>
          ENABLED (\E uri \in URIs, v \in 1..MaxVersion, edits \in EditLists :
                      ApplyCodeAction(uri, v, edits))

C15_Witness ==
    /\ ~ready
    /\ Len(invocations) = 1 /\ Len(txns) = 1
    /\ requests = <<>>

\* C16: every call of applyCodeAction ends in exactly one of four outcomes:
\* silent no-op, stale (informational message only, text untouched), applied
\* (text changed, no message) or rejected (error message only); no call
\* surfaces more than one message, and an error message follows only a
\* transaction that was submitted and reported as failed.
Settled(i) == \A t \in TxnsOf(i) : txns[t].status # "pending"

OutcomeNoOp(i) == TxnsOf(i) = {} /\ invocations[i].msgs = <<>>
OutcomeStale(i) ==
    /\ invocations[i].msgs = <<InfoMsg>>
    /\ \A t \in TxnsOf(i) : txns[t].status # "applied"
OutcomeApplied(i) ==
    /\ invocations[i].msgs = <<>>
    /\ \E t \in TxnsOf(i) : txns[t].status = "applied"
OutcomeRejected(i) ==
    /\ invocations[i].msgs = <<ErrorMsg>>
    /\ \E t \in TxnsOf(i) : txns[t].status = "rejected"

OutcomeCount(i) ==
    Cardinality({o \in {"noop", "stale", "applied", "rejected"} :
        \/ o = "noop" /\ OutcomeNoOp(i)
        \/ o = "stale" /\ OutcomeStale(i)
        \/ o = "applied" /\ OutcomeApplied(i)
        \/ o = "rejected" /\ OutcomeRejected(i)})

C16_FourOutcomes ==
    \A i \in Invs :
        /\ Len(invocations[i].msgs) <= 1
        /\ Count(invocations[i].msgs, ErrorMsg) > 0 =>
              \E t \in TxnsOf(i) : txns[t].status = "rejected"
        /\ Settled(i) => OutcomeCount(i) = 1

====
